---- MODULE Spec2Model ----
(***************************************************************************)
(* Model of main.py, the chat service: the users and messages tables of    *)
(* chat.db, the JWT bearer tokens, and the four API handlers register,     *)
(* login, send_message and get_messages.                                   *)
(*                                                                         *)
(* Every request runs on its own sqlite connection (get_db), possibly in   *)
(* another server process over the same chat.db file, so handlers          *)
(* interleave at the points where they do not hold the database write      *)
(* lock: between register's SELECT and its INSERT, and around the AI call  *)
(* of send_message.  An INSERT and the commit that follows it are one      *)
(* step: sqlite serialises write transactions and other connections see    *)
(* nothing of a transaction before its commit.                             *)
(*                                                                         *)
(* Time is counted in ticks of 1/TicksPerSecond second: datetime.now() has *)
(* sub-second resolution, while the JWT exp claim and the CURRENT_TIMESTAMP*)
(* column default are whole seconds.                                       *)
(***************************************************************************)
EXTENDS Integers, Sequences, FiniteSets, TLC

VARIABLES users, messages, idx_created_at, now, tokens, req, out

vars == <<users, messages, idx_created_at, now, tokens, req, out>>

(***************************************************************************)
(* Bounds of the model.                                                    *)
(***************************************************************************)
TicksPerSecond == 2
MaxNew == 2
MaxTokens == 2
Workers == {1, 2}

(***************************************************************************)
(* Program constants.                                                      *)
(***************************************************************************)
TokenLifetimeHours == 24
SecondsPerHour == 3600
LimitCap == 100
NullId == 0
NullText == "NULL"
SecretKey == "secret-key"
AiModel == "gemini-1.5-flash"
AiUsername == "AI Assistant"
RobotGlyph == "robot"

TokenLifetime == TokenLifetimeHours * SecondsPerHour

(***************************************************************************)
(* Strings whose characters matter (message contents) are sequences of     *)
(* one-character strings.                                                  *)
(***************************************************************************)
C_joke == <<"@","A","I"," ","t","e","l","l"," ","m","e"," ","a"," ","j","o","k","e">>
C_heyai == <<"h","e","y"," ","a","i",","," ","w","h","a","t"," ","t","i","m","e"," ","i","s"," ","i","t">>
C_HEYAI == <<"H","E","Y"," ","A","I">>
C_hello == <<"h","e","l","l","o"," ","t","h","e","r","e">>

Contents == {C_joke, C_heyai, C_HEYAI, C_hello}
Replies == {<<"o","k">>}
Usernames == {"alice", "Alice"}
Passwords == {"secret1", "wrongpass"}
Limits == {-1, 0, 1, LimitCap + 1}

Upper == <<"A","B","C","D","E","F","G","H","I","J","K","L","M",
           "N","O","P","Q","R","S","T","U","V","W","X","Y","Z">>
LowerLetters == <<"a","b","c","d","e","f","g","h","i","j","k","l","m",
           "n","o","p","q","r","s","t","u","v","w","x","y","z">>

LowerChar(c) ==
    IF \E i \in 1..Len(Upper) : Upper[i] = c
    THEN LowerLetters[CHOOSE i \in 1..Len(Upper) : Upper[i] = c]
    ELSE c

\* str.lower()
Lower(s) == [i \in 1..Len(s) |-> LowerChar(s[i])]

\* str.startswith(p)
StartsWith(s, p) == Len(s) >= Len(p) /\ SubSeq(s, 1, Len(p)) = p

\* p in s
Contains(s, p) ==
    \E i \in 1..(Len(s) - Len(p) + 1) : SubSeq(s, i, i + Len(p) - 1) = p

\* the condition of line 240 without the .lower() calls
IsAiTrigger_cased(content) ==
    \/ StartsWith(content, <<"@","a","i">>)
    \/ Contains(content, <<"h","e","y"," ","a","i">>)

\* the condition of line 240
IsAiTrigger(content) ==
    \/ StartsWith(Lower(content), <<"@","a","i">>)
    \/ Contains(Lower(content), <<"h","e","y"," ","a","i">>)

Min2(a, b) == IF a <= b THEN a ELSE b

(***************************************************************************)
(* Time.                                                                   *)
(***************************************************************************)
\* whole seconds of an instant given in ticks
Seconds(t) == t \div TicksPerSecond

\* the instants the clock is observed at: every tick of the first second,
\* the last tick before one token lifetime has passed since its start, and
\* every tick of the second that follows
TimePoints ==
    (0..(TicksPerSecond - 1))
    \cup {TokenLifetime * TicksPerSecond + d : d \in (-1)..(TicksPerSecond - 1)}

(***************************************************************************)
(* Utility functions.                                                      *)
(***************************************************************************)
hash_password(password) == [sha256 |-> password]

\* jwt.encode turns the datetime exp into whole seconds since the epoch
create_token(user_id, username, t) ==
    [payload |-> [user_id |-> user_id, username |-> username,
                  exp |-> Seconds(t) + TokenLifetime],
     key |-> SecretKey]

NoPayload == [user_id |-> NullId, username |-> "", exp |-> 0]

\* verify_token with a token still accepted at the instant of its exp
verify_token_late(token, t) ==
    IF token.key # SecretKey
    THEN [ok |-> FALSE, status |-> 401, detail |-> "Invalid token", payload |-> NoPayload]
    ELSE IF token.payload.exp * TicksPerSecond < t
    THEN [ok |-> FALSE, status |-> 401, detail |-> "Token expired", payload |-> NoPayload]
    ELSE [ok |-> TRUE, status |-> 200, detail |-> "", payload |-> token.payload]

\* jwt.decode checks the signature first, then exp <= now
verify_token(token, t) ==
    IF token.key # SecretKey
    THEN [ok |-> FALSE, status |-> 401, detail |-> "Invalid token", payload |-> NoPayload]
    ELSE IF token.payload.exp * TicksPerSecond <= t
    THEN [ok |-> FALSE, status |-> 401, detail |-> "Token expired", payload |-> NoPayload]
    ELSE [ok |-> TRUE, status |-> 200, detail |-> "", payload |-> token.payload]

NoToken == [payload |-> NoPayload, key |-> ""]
ForgedToken ==
    [payload |-> [user_id |-> 1, username |-> "alice", exp |-> 4 * TokenLifetime],
     key |-> "attacker-key"]

NoHeader == [scheme |-> "", token |-> NoToken]
Bearer(token) == [scheme |-> "Bearer ", token |-> token]
Basic(token) == [scheme |-> "Basic ", token |-> token]

\* get_current_user without the test of the "Bearer " prefix
get_current_user_anyscheme(authorization, t) ==
    IF authorization.scheme = ""
    THEN [ok |-> FALSE, status |-> 401, detail |-> "Token required", payload |-> NoPayload]
    ELSE verify_token(authorization.token, t)

get_current_user(authorization, t) ==
    IF authorization.scheme # "Bearer "
    THEN [ok |-> FALSE, status |-> 401, detail |-> "Token required", payload |-> NoPayload]
    ELSE verify_token(authorization.token, t)

\* the Authorization headers a client can send
Headers ==
    {NoHeader, Bearer(ForgedToken)}
    \cup {Bearer(k.token) : k \in tokens}
    \cup {Basic(k.token) : k \in tokens}

(***************************************************************************)
(* The tables.                                                             *)
(***************************************************************************)
UserRow(id, username, password_hash) ==
    [id |-> id, username |-> username, password_hash |-> password_hash]

MessageRow(id, content, user_id, is_ai, ai_model, t) ==
    [id |-> id, content |-> content, user_id |-> user_id, is_ai |-> is_ai,
     ai_model |-> ai_model, created_at |-> Seconds(t)]

\* SELECT id FROM users WHERE username = ?
UsernameExists(username) == \E i \in 1..Len(users) : users[i].username = username

\* SELECT id, username FROM users WHERE username = ? AND password_hash = ?
FindUser(username, password_hash) ==
    {i \in 1..Len(users) : users[i].username = username
                           /\ users[i].password_hash = password_hash}

\* COALESCE(u.username, 'AI Assistant') over the LEFT JOIN
JoinUsername(row) ==
    IF row.user_id \in 1..Len(users) THEN users[row.user_id].username ELSE AiUsername

MessageResponse(row) ==
    [id |-> row.id, content |-> row.content, username |-> JoinUsername(row),
     is_ai |-> row.is_ai, ai_model |-> row.ai_model, created_at |-> row.created_at]

\* idx_messages_created_at (line 64) holds the rowids of the rows in ascending
\* order of created_at and, among equal created_at, of rowid
\* an index that orders equal created_at by descending rowid
IndexBefore_newestfirst(a, b) ==
    \/ a.created_at < b.created_at
    \/ a.created_at = b.created_at /\ a.id > b.id

IndexBefore(a, b) ==
    \/ a.created_at < b.created_at
    \/ a.created_at = b.created_at /\ a.id < b.id

\* the index after the INSERT of row into table
IndexInsert(index, table, row) ==
    LET p == Cardinality({i \in 1..Len(index) : IndexBefore(table[index[i]], row)})
    IN  SubSeq(index, 1, p) \o <<row.id>> \o SubSeq(index, p + 1, Len(index))

\* LIMIT n: a negative n is no limit in sqlite
SqlLimit(n, count) == IF n < 0 THEN count ELSE Min2(n, count)

\* ORDER BY m.created_at DESC LIMIT n: sqlite scans idx_messages_created_at
\* backwards and looks each row up by its rowid
ScanDesc(n) ==
    [i \in 1..SqlLimit(n, Len(idx_created_at)) |->
        messages[idx_created_at[Len(idx_created_at) + 1 - i]]]

\* the list without reversed()
Reverse_omitted(s) == s

Reverse(s) == [i \in 1..Len(s) |-> s[Len(s) + 1 - i]]

\* lines 272-294
RecentMessages(limit) ==
    LET results == ScanDesc(Min2(limit, LimitCap))
        oldest_first == Reverse(results)
    IN  [i \in 1..Len(oldest_first) |-> MessageResponse(oldest_first[i])]

(***************************************************************************)
(* Requests in flight and the last response sent.                          *)
(***************************************************************************)
NoMessage ==
    [id |-> NullId, content |-> <<>>, username |-> "", is_ai |-> FALSE,
     ai_model |-> NullText, created_at |-> 0]

Idle ==
    [pc |-> "idle", username |-> "", password |-> "",
     message_id |-> NullId, result |-> NoMessage]

NoResponse ==
    [op |-> "none", status |-> 0, detail |-> "", token |-> NoToken,
     message |-> NoMessage, list |-> <<>>, rows |-> <<>>, ai |-> "none"]

\* the client keeps a token it was sent while it has room for it
Keep(token) ==
    IF Cardinality(tokens) < MaxTokens
    THEN tokens \cup {[token |-> token, issued_at |-> now]}
    ELSE tokens

PendingAi == Cardinality({w \in Workers : req[w].pc = "ai_call"})

\* the rows chat.db holds from earlier runs of the server (init_db creates
\* its tables only IF NOT EXISTS): one short of the cap of get_messages
HistoryLen == LimitCap - 1
History ==
    [i \in 1..HistoryLen |->
        [id |-> i, content |-> <<"h","i">>, user_id |-> 1, is_ai |-> FALSE,
         ai_model |-> NullText, created_at |-> 0]]

\* the rows of messages that are not of History
NewRows == IF Len(messages) >= HistoryLen THEN Len(messages) - HistoryLen ELSE Len(messages)

\* a fresh chat.db
InitAccounts ==
    /\ users = <<>>
    /\ messages = <<>>
    /\ idx_created_at = <<>>
    /\ now = 0
    /\ tokens = {}
    /\ req = [w \in Workers |-> Idle]
    /\ out = NoResponse

\* alice has registered and holds her token; messages holds the rows of table
InitRoom(table) ==
    /\ users = <<UserRow(1, "alice", hash_password("secret1"))>>
    /\ messages = table
    /\ idx_created_at = [i \in 1..Len(table) |-> i]
    /\ now = 0
    /\ tokens = {[token |-> create_token(1, "alice", 0), issued_at |-> 0]}
    /\ req = [w \in Workers |-> Idle]
    /\ out = NoResponse

\* a room without messages
InitChat == InitRoom(<<>>)

\* a room without messages, or one that holds History
InitArchive == \E table \in {<<>>, History} : InitRoom(table)

\* the clock moves on
Advance ==
    /\ \E t \in TimePoints : t > now /\ now' = t
    /\ UNCHANGED <<users, messages, idx_created_at, tokens, req, out>>

\* register with INSERT OR REPLACE in place of the SELECT and the 400
Register_replace(w, username, password) ==
    /\ req[w].pc = "idle"
    /\ IF UsernameExists(username)
       THEN LET i == CHOOSE i \in 1..Len(users) : users[i].username = username
            IN  /\ users' = [users EXCEPT ![i].password_hash = hash_password(password)]
                /\ out' = [NoResponse EXCEPT !.op = "register", !.status = 200,
                              !.token = create_token(i, username, now)]
                /\ UNCHANGED req
       ELSE /\ req' = [req EXCEPT ![w] = [Idle EXCEPT !.pc = "reg_insert",
                          !.username = username, !.password = password]]
            /\ UNCHANGED <<users, out>>
    /\ UNCHANGED <<messages, idx_created_at, now, tokens>>

\* register, lines 169-175: the SELECT, and the 400 when it finds a row
Register(w, username, password) ==
    /\ req[w].pc = "idle"
    /\ IF UsernameExists(username)
       THEN /\ out' = [NoResponse EXCEPT !.op = "register", !.status = 400,
                          !.detail = "Username already exists"]
            /\ UNCHANGED req
       ELSE /\ req' = [req EXCEPT ![w] = [Idle EXCEPT !.pc = "reg_insert",
                          !.username = username, !.password = password]]
            /\ UNCHANGED out
    /\ UNCHANGED <<users, messages, idx_created_at, now, tokens>>

\* register, lines 177-188: the INSERT, the commit and the token; the INSERT
\* of a username another connection has committed since the SELECT raises
\* sqlite3.IntegrityError (UNIQUE), which nothing catches
RegisterInsert(w) ==
    /\ req[w].pc = "reg_insert"
    /\ req' = [req EXCEPT ![w] = Idle]
    /\ LET username == req[w].username
           password == req[w].password
           user_id == Len(users) + 1
           token == create_token(user_id, username, now)
       IN  IF UsernameExists(username)
           THEN /\ out' = [NoResponse EXCEPT !.op = "register", !.status = 500,
                              !.detail = "Internal Server Error"]
                /\ UNCHANGED <<users, tokens>>
           ELSE /\ users' = Append(users, UserRow(user_id, username, hash_password(password)))
                /\ tokens' = Keep(token)
                /\ out' = [NoResponse EXCEPT !.op = "register", !.status = 200,
                              !.token = token]
    /\ UNCHANGED <<messages, idx_created_at, now>>

\* login, lines 190-209
Login(username, password) ==
    /\ \E w \in Workers : req[w].pc = "idle"
    /\ LET found == FindUser(username, hash_password(password))
       IN  IF found = {}
           THEN /\ out' = [NoResponse EXCEPT !.op = "login", !.status = 401,
                              !.detail = "Invalid credentials"]
                /\ UNCHANGED tokens
           ELSE LET user_data == users[CHOOSE i \in found : TRUE]
                    token == create_token(user_data.id, user_data.username, now)
                IN  /\ tokens' = Keep(token)
                    /\ out' = [NoResponse EXCEPT !.op = "login", !.status = 200,
                                  !.token = token]
    /\ UNCHANGED <<users, messages, idx_created_at, now, req>>

\* send_message, lines 217-240: authentication, the human row and its commit,
\* the SELECT of the saved row, and the response when the AI is not addressed
SendMessage(w, authorization, content) ==
    /\ req[w].pc = "idle"
    /\ LET current_user == get_current_user(authorization, now)
           message_id == Len(messages) + 1
           row == MessageRow(message_id, content, current_user.payload.user_id,
                             FALSE, NullText, now)
           result == MessageResponse(row)
       IN  IF ~current_user.ok
           THEN /\ out' = [NoResponse EXCEPT !.op = "send", !.status = current_user.status,
                              !.detail = current_user.detail]
                /\ UNCHANGED <<messages, idx_created_at, req>>
           ELSE /\ NewRows + PendingAi + (IF IsAiTrigger(content) THEN 2 ELSE 1)
                      <= MaxNew
                /\ messages' = Append(messages, row)
                /\ idx_created_at' = IndexInsert(idx_created_at, messages, row)
                /\ IF IsAiTrigger(content)
                   THEN /\ req' = [req EXCEPT ![w] = [Idle EXCEPT !.pc = "ai_call",
                                      !.message_id = message_id, !.result = result]]
                        /\ UNCHANGED out
                   ELSE /\ out' = [NoResponse EXCEPT !.op = "send", !.status = 200,
                                      !.message = result, !.rows = <<message_id>>]
                        /\ UNCHANGED req
    /\ UNCHANGED <<users, now, tokens>>

\* get_ai_response, lines 143-147
get_ai_response(text) == <<RobotGlyph, " ">> \o text

\* send_message, lines 242-258, when get_ai_response returns
AiReturn(w, text) ==
    /\ req[w].pc = "ai_call"
    /\ LET ai_content == get_ai_response(text)
           ai_id == Len(messages) + 1
           ai_row == MessageRow(ai_id, ai_content, NullId, TRUE, AiModel, now)
       IN  /\ messages' = Append(messages, ai_row)
           /\ idx_created_at' = IndexInsert(idx_created_at, messages, ai_row)
           /\ out' = [NoResponse EXCEPT !.op = "send", !.status = 200,
                         !.message = req[w].result,
                         !.rows = <<req[w].message_id, ai_id>>, !.ai = "returned"]
    /\ req' = [req EXCEPT ![w] = Idle]
    /\ UNCHANGED <<users, now, tokens>>

\* send_message catching the failure and storing an AI row that reports it
AiRaise_storesapology(w) ==
    /\ req[w].pc = "ai_call"
    /\ LET ai_id == Len(messages) + 1
           ai_row == MessageRow(ai_id, <<RobotGlyph>>, NullId, TRUE, AiModel, now)
       IN  /\ messages' = Append(messages, ai_row)
           /\ idx_created_at' = IndexInsert(idx_created_at, messages, ai_row)
    /\ out' = [NoResponse EXCEPT !.op = "send", !.status = 500,
                  !.detail = "Internal Server Error",
                  !.rows = <<req[w].message_id>>, !.ai = "raised"]
    /\ req' = [req EXCEPT ![w] = Idle]
    /\ UNCHANGED <<users, now, tokens>>

\* send_message catching the failure and answering with the human message
AiRaise_swallowed(w) ==
    /\ req[w].pc = "ai_call"
    /\ out' = [NoResponse EXCEPT !.op = "send", !.status = 200,
                  !.message = req[w].result,
                  !.rows = <<req[w].message_id>>, !.ai = "raised"]
    /\ req' = [req EXCEPT ![w] = Idle]
    /\ UNCHANGED <<users, messages, idx_created_at, now, tokens>>

\* send_message, line 242, when get_ai_response raises: nothing catches it
AiRaise(w) ==
    /\ req[w].pc = "ai_call"
    /\ out' = [NoResponse EXCEPT !.op = "send", !.status = 500,
                  !.detail = "Internal Server Error",
                  !.rows = <<req[w].message_id>>, !.ai = "raised"]
    /\ req' = [req EXCEPT ![w] = Idle]
    /\ UNCHANGED <<users, messages, idx_created_at, now, tokens>>

\* get_messages, lines 260-294
GetMessages(authorization, limit) ==
    /\ \E w \in Workers : req[w].pc = "idle"
    /\ LET current_user == get_current_user(authorization, now)
       IN  IF ~current_user.ok
           THEN out' = [NoResponse EXCEPT !.op = "get", !.status = current_user.status,
                           !.detail = current_user.detail]
           ELSE out' = [NoResponse EXCEPT !.op = "get", !.status = 200,
                           !.list = RecentMessages(limit)]
    /\ UNCHANGED <<users, messages, idx_created_at, now, tokens, req>>

\* registration and login
NextAccounts ==
    \/ Advance
    \/ \E w \in Workers, u \in Usernames, p \in Passwords : Register(w, u, p)
    \/ \E w \in Workers : RegisterInsert(w)
    \/ \E u \in Usernames, p \in Passwords : Login(u, p)

\* the chat room
NextChat ==
    \/ Advance
    \/ \E w \in Workers, a \in Headers, c \in Contents : SendMessage(w, a, c)
    \/ \E w \in Workers, text \in Replies : AiReturn(w, text)
    \/ \E w \in Workers : AiRaise(w)
    \/ \E a \in Headers, n \in Limits : GetMessages(a, n)

\* the chat room when one worker takes the messages sent
NextArchive ==
    \/ Advance
    \/ \E a \in Headers, c \in Contents : SendMessage(1, a, c)
    \/ \E text \in Replies : AiReturn(1, text)
    \/ AiRaise(1)
    \/ \E a \in Headers, n \in Limits : GetMessages(a, n)

SpecAccounts == InitAccounts /\ [][NextAccounts]_vars

SpecChat == InitChat /\ [][NextChat]_vars

SpecArchive == InitArchive /\ [][NextArchive]_vars

(***************************************************************************)
(* Properties of registration, login and tokens, checked under             *)
(* SpecAccounts.                                                           *)
(***************************************************************************)
Present(username) == \E i \in 1..Len(users) : users[i].username = username

\* every token a client holds that still verifies names a row of users
\* with its username
TokensBound ==
    \A k \in tokens :
        LET r == verify_token(k.token, now)
        IN  r.ok => /\ r.payload.user_id \in 1..Len(users)
                    /\ users[r.payload.user_id].username = r.payload.username

\* C1: a register call for a username that is already in users (exact,
\* case-sensitive match) answers 400 "Username already exists", is over with
\* that answer, and changes no row of users; the tokens issued before verify
\* exactly as they did, and name the rows they were issued for.
C1_DuplicateRegister ==
    [][\A w \in Workers, u \in Usernames, p \in Passwords :
          (Present(u) /\ Register(w, u, p)) =>
              /\ out'.op = "register" /\ out'.status = 400
              /\ out'.detail = "Username already exists"
              /\ users' = users
              /\ req'[w].pc = "idle"
              /\ tokens' = tokens
              /\ \A k \in tokens : verify_token(k.token, now') = verify_token(k.token, now)
              /\ TokensBound']_vars

C1_Witness ==
    /\ out.op = "register" /\ out.status = 400
    /\ \E k \in tokens : verify_token(k.token, now).ok /\ k.token.payload.user_id = 1

\* the expiry instant, in ticks, the claim gives a token issued at tick t
ClaimedExpiry(t) == t + TokenLifetime * TicksPerSecond

\* the expiry instant, in ticks, of a token issued at tick t: the start of
\* the second of t, plus 24 hours
TruncatedExpiry(t) == (t \div TicksPerSecond) * TicksPerSecond + TokenLifetime * TicksPerSecond

Accepted(k) ==
    LET r == verify_token(k.token, now)
    IN  /\ r.ok
        /\ r.payload.user_id \in 1..Len(users)
        /\ users[r.payload.user_id].username = r.payload.username

Expired(k) ==
    LET r == verify_token(k.token, now)
    IN  ~r.ok /\ r.status = 401 /\ r.detail = "Token expired"

\* C8 as claimed: a token issued at T is accepted throughout [T, T+24h) and
\* rejected as expired from T+24h on.
C8_WindowFromIssueInstant ==
    \A k \in tokens :
        /\ (k.issued_at <= now /\ now < ClaimedExpiry(k.issued_at)) => Accepted(k)
        /\ now >= ClaimedExpiry(k.issued_at) => Expired(k)

\* C8, amended: a token issued at T expires at E = (T truncated to whole
\* seconds) + 24h; it is accepted, with the identity it was issued for,
\* throughout [T, E) and rejected as expired from E on, so also from T+24h on.
C8_WindowFromIssueSecond ==
    \A k \in tokens :
        /\ (k.issued_at <= now /\ now < TruncatedExpiry(k.issued_at)) => Accepted(k)
        /\ now >= TruncatedExpiry(k.issued_at) => Expired(k)
        /\ now >= ClaimedExpiry(k.issued_at) => Expired(k)

C8_Witness ==
    \E k, j \in tokens :
        /\ k.issued_at % TicksPerSecond # 0
        /\ now >= TruncatedExpiry(k.issued_at) /\ now < ClaimedExpiry(k.issued_at)
        /\ Expired(k)
        /\ Accepted(j)

\* C10 as claimed: users never holds a username twice, and every register
\* request that does not create its row is answered 400.
C10_RacingRegisterAnswers400 ==
    /\ \A i, j \in 1..Len(users) : users[i].username = users[j].username => i = j
    /\ (out.op = "register" /\ out.status # 200) => out.status = 400

(***************************************************************************)
(* Properties of the chat room, checked under SpecChat, and under          *)
(* SpecArchive where the cap of get_messages matters.                      *)
(***************************************************************************)
\* the header carries no token that verifies at instant t
Unauthenticated(a, t) ==
    \/ a.scheme # "Bearer "
    \/ a.token.key # SecretKey
    \/ a.token.payload.exp * TicksPerSecond <= t

\* row id of messages is the human message with this content
HumanRow(table, id, content) ==
    /\ id \in 1..Len(table)
    /\ table[id].id = id
    /\ table[id].content = content
    /\ table[id].is_ai = FALSE
    /\ table[id].user_id # NullId
    /\ table[id].ai_model = NullText

\* row id of messages is an AI message
AiRow(table, id) ==
    /\ id \in 1..Len(table)
    /\ table[id].id = id
    /\ table[id].is_ai = TRUE
    /\ table[id].user_id = NullId
    /\ table[id].ai_model = AiModel

\* no row of messages is ever removed or changed
AppendOnly ==
    /\ Len(messages') >= Len(messages)
    /\ SubSeq(messages', 1, Len(messages)) = messages

\* worker w ends its request in this step because its AI call raised
AiFails(w) == req[w].pc = "ai_call" /\ req'[w].pc = "idle" /\ out'.ai = "raised"

\* C2: when the AI call of a send_message raises, the step adds no row: the
\* human row the request inserted is in messages as it was stored, no AI row
\* is added, and no later step removes or changes a row.
C2_HumanRowKeptOnAiFailure ==
    [][/\ AppendOnly
       /\ \A w \in Workers :
             AiFails(w) =>
                 /\ messages' = messages
                 /\ HumanRow(messages', req[w].message_id, req[w].result.content)
                 /\ out'.rows = <<req[w].message_id>>]_vars

C2_Witness ==
    /\ out.op = "send" /\ out.ai = "raised"
    /\ out.rows = <<Len(messages)>>
    /\ HumanRow(messages, out.rows[1], C_joke)

\* the response carries the human message stored as row id
CarriesHumanMessage(id) ==
    /\ HumanRow(messages, id, out.message.content)
    /\ out.message.id = id
    /\ out.message.username = users[messages[id].user_id].username
    /\ out.message.is_ai = FALSE
    /\ out.message.ai_model = NullText
    /\ out.message.created_at = messages[id].created_at

\* C3 as claimed: every authenticated send_message is answered 200 with the
\* stored human message, whatever the AI call did.
C3_AnsweredWhateverTheAi ==
    (out.op = "send" /\ out.status # 401) =>
        /\ out.status = 200
        /\ CarriesHumanMessage(out.rows[1])

\* C3, amended: an authenticated send_message is answered 200 with the
\* stored human message when the AI is not called or returns; when the AI
\* call raises it is answered 500, without the message.
C3_AnsweredUnlessAiRaises ==
    (out.op = "send" /\ out.status # 401) =>
        IF out.ai = "raised"
        THEN /\ out.status = 500
             /\ out.message = NoMessage
        ELSE /\ out.status = 200
             /\ CarriesHumanMessage(out.rows[1])

C3_Witness == out.op = "send" /\ out.ai = "raised" /\ out.status = 500

Min3(a, b, c) == Min2(a, Min2(b, c))

\* the step sends a response to a request of kind op (a step that sends the
\* response that was sent last, and changes nothing else, is no step)
Answers(op) == out'.op = op /\ out' # out

NonDecreasing(list) ==
    \A i, j \in 1..Len(list) : i < j => list[i].created_at <= list[j].created_at

\* C4: get_messages(limit) with limit >= 0 returns exactly
\* min(N, limit, 100) messages, N the number of rows of messages, in
\* non-decreasing created_at order.
C4_RecentCountAndOrder ==
    [][Answers("get") => \A a \in Headers, n \in Limits :
          (n >= 0 /\ ~Unauthenticated(a, now) /\ GetMessages(a, n)) =>
              /\ out'.status = 200
              /\ Len(out'.list) = Min3(Len(messages), n, LimitCap)
              /\ NonDecreasing(out'.list)]_vars

C4_Witness ==
    /\ out.op = "get" /\ out.status = 200
    /\ Len(out.list) = LimitCap
    /\ Len(messages) > LimitCap
    /\ out.list[1].created_at < out.list[LimitCap].created_at

\* C5 as claimed: get_messages(limit) with limit <= 0 returns the empty list,
\* and no limit makes it return more than 100 messages.
C5_NonPositiveLimitIsEmpty ==
    [][Answers("get") => \A a \in Headers, n \in Limits :
          (~Unauthenticated(a, now) /\ GetMessages(a, n)) =>
              /\ n <= 0 => out'.list = <<>>
              /\ Len(out'.list) <= LimitCap]_vars

\* the trigger rule as the claim states it
AddressesAi(content) ==
    \/ StartsWith(Lower(content), <<"@","a","i">>)
    \/ Contains(Lower(content), <<"h","e","y"," ","a","i">>)

AiRows == Cardinality({i \in (Len(messages) - NewRows + 1)..Len(messages) : messages[i].is_ai})

AddressingRows ==
    Cardinality({i \in (Len(messages) - NewRows + 1)..Len(messages) :
                    ~messages[i].is_ai /\ AddressesAi(messages[i].content)})

\* C6: a send_message answered 200 has appended the human row and, after
\* it, one AI row when its content addresses the AI ("@AI tell me a joke",
\* "hey ai, what time is it", "HEY AI"), and the human row alone when it does
\* not ("hello there"); messages holds no AI row without a human row that
\* addresses the AI.
C6_AiReplyIffAddressed ==
    /\ AddressesAi(C_joke) /\ AddressesAi(C_heyai) /\ AddressesAi(C_HEYAI)
    /\ ~AddressesAi(C_hello)
    /\ AiRows + PendingAi <= AddressingRows
    /\ (out.op = "send" /\ out.status = 200) =>
          IF AddressesAi(out.message.content)
          THEN /\ Len(out.rows) = 2
               /\ out.rows[1] < out.rows[2]
               /\ HumanRow(messages, out.rows[1], out.message.content)
               /\ AiRow(messages, out.rows[2])
          ELSE /\ Len(out.rows) = 1
               /\ HumanRow(messages, out.rows[1], out.message.content)

C6_Witness ==
    /\ out.op = "send" /\ out.status = 200
    /\ out.message.content = C_joke
    /\ Len(out.rows) = 2 /\ AiRow(messages, out.rows[2])

\* C7: a POST or GET to /api/messages whose Authorization header is absent,
\* is not a Bearer header, or carries an invalid or expired token is
\* answered 401, changes neither table and starts no AI call.
C7_UnauthenticatedChangesNothing ==
    [][/\ (out'.op = "send" \/ req' # req) =>
             \A a \in Headers, w \in Workers, c \in Contents :
                 (Unauthenticated(a, now) /\ SendMessage(w, a, c)) =>
                     /\ out'.op = "send" /\ out'.status = 401
                     /\ users' = users /\ messages' = messages
                     /\ req' = req
       /\ out'.op = "get" =>
             \A a \in Headers, n \in Limits :
                 (Unauthenticated(a, now) /\ GetMessages(a, n)) =>
                     /\ out'.status = 401
                     /\ out'.list = <<>>
                     /\ users' = users /\ messages' = messages
                     /\ req' = req]_vars

C7_Witness ==
    /\ out.op = "send" /\ out.status = 401 /\ out.detail = "Token expired"
    /\ Len(messages) > 0

\* message a comes before message b in the order (created_at, id)
OrderedBefore(a, b) ==
    \/ a.created_at < b.created_at
    \/ a.created_at = b.created_at /\ a.id < b.id

====
